---- MODULE Spec2Model ----
(***************************************************************************)
(* A model of yubico_bitcoin.ykneo: the YkneoBitcoin session object, its   *)
(* access-control decorators, the APDU framing of _cmd and the path        *)
(* packing of pack_path.                                                   *)
(*                                                                         *)
(* A Python 2 str is a sequence of bytes (0..255).  A path is a sequence   *)
(* of one-character strings.  The reader (the card) is the environment:    *)
(* every call that reaches reader.transmit receives a response             *)
(* [data, sw1, sw2] chosen by the environment.                             *)
(*                                                                         *)
(* Each method is an operator that computes the outcome of one call in the *)
(* current state: the exception raised (or "none"), the frames handed to   *)
(* reader.transmit, the returned value and the object's fields after the   *)
(* call.  An action performs one call and records it in last.              *)
(***************************************************************************)
EXTENDS Integers, Sequences, FiniteSets, TLC

VARIABLES
    phase,           \* "new": before YkneoBitcoin(reader); "selected": the
                     \* object exists; "failed": __init__ raised
    user_unlocked,   \* self._user_unlocked
    admin_unlocked,  \* self._admin_unlocked
    key_loaded,      \* self._key_loaded
    version,         \* self._version (a tuple)
    last,            \* the last call: its name, arguments, outcome, the
                     \* frames it transmitted and the fields before it
    reader,          \* the answers the reader is scripted to give, in
                     \* order; <<>> when it answers as it likes
    history,         \* what an observer of the session's calls and of the
                     \* reader's answers has noted so far, when one is
                     \* noting (history.on)
    threads          \* the callers sharing the object, where each is in
                     \* its call, and the frame last handed to the reader,
                     \* when calls are followed statement by statement

vars ==
    <<phase, user_unlocked, admin_unlocked, key_loaded, version, last,
      reader, history, threads>>

-----------------------------------------------------------------------------
(* Bounds of the input sets.                                               *)

\* The longest path text a method call is given.
MaxPathLen == 2

\* The longest path text, over a wider alphabet, pack_path alone is given.
MaxPackLen == 4

\* The number of callers that share one object.
MaxCallers == 2

-----------------------------------------------------------------------------
(* Integer helpers: Python's &, | and << on non-negative integers.         *)

RECURSIVE BitAnd(_, _)
BitAnd(a, b) ==
    IF a = 0 \/ b = 0 THEN 0
    ELSE (IF a % 2 = 1 /\ b % 2 = 1 THEN 1 ELSE 0)
         + 2 * BitAnd(a \div 2, b \div 2)

RECURSIVE BitOr(_, _)
BitOr(a, b) ==
    IF a = 0 THEN b
    ELSE IF b = 0 THEN a
    ELSE (IF a % 2 = 1 \/ b % 2 = 1 THEN 1 ELSE 0)
         + 2 * BitOr(a \div 2, b \div 2)

ShiftLeft(a, n) == a * 2 ^ n

-----------------------------------------------------------------------------
(* Hex text.  A hex string is a sequence of hex digits, each digit held as *)
(* its value 0..15.                                                        *)

RECURSIVE HexDigits(_)
HexDigits(n) ==
    IF n < 16 THEN <<n>> ELSE Append(HexDigits(n \div 16), n % 16)

\* '%02x' % n: at least two digits, more when n > 255.
Fmt02x(n) == IF n < 16 THEN <<0, n>> ELSE HexDigits(n)

\* data.encode('hex'): two digits per byte.
EncodeHex(data) ==
    [i \in 1..(2 * Len(data)) |->
        IF i % 2 = 1 THEN data[(i + 1) \div 2] \div 16
                     ELSE data[i \div 2] % 16]

\* str.decode('hex') accepts only an even number of digits.
HexDecodable(h) == Len(h) % 2 = 0

\* hex2cmd: map(ord, data.decode('hex')).
hex2cmd(h) == [i \in 1..(Len(h) \div 2) |-> 16 * h[2 * i - 1] + h[2 * i]]

\* chr(n) is defined for 0..255 only.
ChrOk(n) == n \in 0..255

-----------------------------------------------------------------------------
(* Outcomes of a call.                                                     *)

\* The object's fields.
Cur ==
    [user_unlocked  |-> user_unlocked,
     admin_unlocked |-> admin_unlocked,
     key_loaded     |-> key_loaded,
     version        |-> version]

\* A normal return of value ret (<<>> also stands for None).
Return(st, frames, ret) ==
    [exc |-> "none", admin |-> FALSE, tries |-> 0, status |-> 0,
     st |-> st, frames |-> frames, ret |-> ret]

\* An exception of class exc; admin, tries and status are its arguments.
Raise(exc, st, frames) ==
    [exc |-> exc, admin |-> FALSE, tries |-> 0, status |-> 0,
     st |-> st, frames |-> frames, ret |-> <<>>]

\* PINModeLockedException(admin)
PINModeLockedException(admin) ==
    [Raise("PINModeLockedException", Cur, <<>>) EXCEPT !.admin = admin]

\* NoKeyLoadedException()
NoKeyLoadedException == Raise("NoKeyLoadedException", Cur, <<>>)

\* IncorrectPINException(admin, tries_remaining)
IncorrectPINException(admin, tries, st, frames) ==
    [Raise("IncorrectPINException", st, frames)
        EXCEPT !.admin = admin, !.tries = tries]

\* Exception('APDU error: 0x%04x' % status)
APDUError(status, st, frames) ==
    [Raise("Exception", st, frames) EXCEPT !.status = status]

-----------------------------------------------------------------------------
(* The decorators.  inner is the outcome of the wrapped call; it is only   *)
(* evaluated when the guard passes.                                        *)

\* Faulty variant: the guard tests the admin flag.
require_user_tests_admin(inner) ==
    IF ~admin_unlocked THEN PINModeLockedException(FALSE) ELSE inner

require_user(inner) ==
    IF ~user_unlocked THEN PINModeLockedException(FALSE) ELSE inner

require_admin(inner) ==
    IF ~admin_unlocked THEN PINModeLockedException(TRUE) ELSE inner

\* Faulty variant: the key is checked after the wrapped call has run.
require_key_after(inner) ==
    IF ~key_loaded
    THEN [NoKeyLoadedException EXCEPT !.frames = inner.frames]
    ELSE inner

require_key(inner) ==
    IF ~key_loaded THEN NoKeyLoadedException ELSE inner

-----------------------------------------------------------------------------
(* pack_path.                                                              *)

Digits == {"0", "1", "2", "3", "4", "5", "6", "7", "8", "9"}

DigitValue(c) ==
    CASE c = "0" -> 0 [] c = "1" -> 1 [] c = "2" -> 2 [] c = "3" -> 3
      [] c = "4" -> 4 [] c = "5" -> 5 [] c = "6" -> 6 [] c = "7" -> 7
      [] c = "8" -> 8 [] c = "9" -> 9

\* path.split('/'): the pieces between the separators; '' gives [''].
RECURSIVE Split(_)
Split(s) ==
    IF \A i \in 1..Len(s) : s[i] # "/" THEN <<s>>
    ELSE LET k == CHOOSE i \in 1..Len(s) :
                      s[i] = "/" /\ \A j \in 1..(i - 1) : s[j] # "/"
         IN  <<SubSeq(s, 1, k - 1)>> \o Split(SubSeq(s, k + 1, Len(s)))

\* int(s) for text made of digits, "'" and "/": a non-empty run of digits.
IntOk(s) == Len(s) > 0 /\ \A i \in 1..Len(s) : s[i] \in Digits

\* A Python integer n >= 0 is held as [hi, lo] with n = hi * 2^16 + lo and
\* lo < 2^16, so that 32-bit words and the values just above them are exact.
RECURSIVE IntValue(_)
IntValue(s) ==
    IF Len(s) = 0 THEN [hi |-> 0, lo |-> 0]
    ELSE LET r == IntValue(SubSeq(s, 1, Len(s) - 1))
             l == 10 * r.lo + DigitValue(s[Len(s)])
         IN  [hi |-> 10 * r.hi + l \div 65536, lo |-> l % 65536]

Hardened(i) == Len(i) > 0 /\ i[Len(i)] = "'"

\* The text handed to int() for component i: i[:-1] when it ends in "'".
IndexText(i) == IF Hardened(i) THEN SubSeq(i, 1, Len(i) - 1) ELSE i

\* Faulty variant: the bit below the sign bit is set (0x40000000).
OrHardenedBit_low(v) == [v EXCEPT !.hi = BitOr(v.hi, \h4000)]

\* v | 0x80000000
OrHardenedBit(v) == [v EXCEPT !.hi = BitOr(v.hi, \h8000)]

\* int(i[:-1]) | 0x80000000 if i.endswith("'") else int(i)
Index(i) ==
    IF Hardened(i) THEN OrHardenedBit(IntValue(IndexText(i)))
    ELSE IntValue(i)

\* struct.pack('>I', v) takes 0 <= v <= 0xFFFFFFFF.
PackOk(v) == v.hi <= \hFFFF

\* Faulty variant: struct.pack('<I', v), the low byte first.
PackI_little_endian(v) ==
    <<v.lo % 256, v.lo \div 256, v.hi % 256, v.hi \div 256>>

\* struct.pack('>I', v): four bytes, the high byte first.
PackI(v) == <<v.hi \div 256, v.hi % 256, v.lo \div 256, v.lo % 256>>

RECURSIVE Concat(_)
Concat(ss) == IF Len(ss) = 0 THEN <<>> ELSE Head(ss) \o Concat(Tail(ss))

\* The exception pack_path raises on path, "none" when it returns.
pack_path_exc(path) ==
    LET parts == Split(path) IN
    IF \E k \in 1..Len(parts) : ~IntOk(IndexText(parts[k]))
        THEN "ValueError"
    ELSE IF \E k \in 1..Len(parts) : ~PackOk(Index(parts[k]))
        THEN "struct.error"
    ELSE "none"

pack_path(path) ==
    LET parts == Split(path) IN
    Concat([k \in 1..Len(parts) |-> PackI(Index(parts[k]))])

-----------------------------------------------------------------------------
(* _cmd and _cmd_ok.  resp is the reader's answer to the frame.            *)

_cmd(cl, ins, p1, p2, data, resp) ==
    LET command == Fmt02x(cl) \o Fmt02x(ins) \o Fmt02x(p1) \o Fmt02x(p2)
                   \o Fmt02x(Len(data)) \o EncodeHex(data)
    IN  IF ~HexDecodable(command)
        THEN [exc |-> "TypeError", frames |-> <<>>, data |-> <<>>,
              status |-> 0]
        ELSE [exc |-> "none", frames |-> <<hex2cmd(command)>>,
              data |-> resp.data,
              status |-> BitOr(ShiftLeft(resp.sw1, 8), resp.sw2)]

\* Faulty variant: a command that is refused is transmitted once more.
_cmd_ok_retry(cl, ins, p1, p2, data, resp) ==
    LET c == _cmd(cl, ins, p1, p2, data, resp) IN
    IF c.exc # "none" THEN Raise(c.exc, Cur, c.frames)
    ELSE IF c.status # \h9000
        THEN APDUError(c.status, Cur, c.frames \o c.frames)
    ELSE Return(Cur, c.frames, c.data)

\* ''.join(map(chr, data)) of bytes is the same bytes as a str.
_cmd_ok(cl, ins, p1, p2, data, resp) ==
    LET c == _cmd(cl, ins, p1, p2, data, resp) IN
    IF c.exc # "none" THEN Raise(c.exc, Cur, c.frames)
    ELSE IF c.status # \h9000 THEN APDUError(c.status, Cur, c.frames)
    ELSE Return(Cur, c.frames, c.data)

-----------------------------------------------------------------------------
(* __init__                                                                *)

AID == <<\hA0, \h00, \h00, \h05, \h27, \h21, \h02>>

\* data[0:3]: a slice never fails; it is shorter when data is.
Slice03(data) == SubSeq(data, 1, IF Len(data) < 3 THEN Len(data) ELSE 3)

\* Faulty variant: any non-zero byte 3 counts as a loaded key.
init_flag_nonzero(resp) ==
    LET c  == _cmd(\h00, \hA4, \h04, \h00, AID, resp)
        s0 == [Cur EXCEPT !.user_unlocked = FALSE, !.admin_unlocked = FALSE]
    IN  IF c.exc # "none" THEN Raise(c.exc, s0, c.frames)
        ELSE IF c.status # \h9000 THEN Raise("Exception", s0, c.frames)
        ELSE IF Len(c.data) < 4
            THEN Raise("IndexError",
                       [s0 EXCEPT !.version = Slice03(c.data)], c.frames)
        ELSE Return([s0 EXCEPT !.version = Slice03(c.data),
                               !.key_loaded = (c.data[4] # 0)],
                    c.frames, <<>>)

init(resp) ==
    LET c  == _cmd(\h00, \hA4, \h04, \h00, AID, resp)
        s0 == [Cur EXCEPT !.user_unlocked = FALSE, !.admin_unlocked = FALSE]
    IN  IF c.exc # "none" THEN Raise(c.exc, s0, c.frames)
        ELSE IF c.status # \h9000 THEN Raise("Exception", s0, c.frames)
        ELSE IF Len(c.data) < 4
            THEN Raise("IndexError",
                       [s0 EXCEPT !.version = Slice03(c.data)], c.frames)
        ELSE Return([s0 EXCEPT !.version = Slice03(c.data),
                               !.key_loaded = (c.data[4] = 1)],
                    c.frames, <<>>)

\* The version property: "%d.%d.%d" % self._version
version_text(v) ==
    ToString(v[1]) \o "." \o ToString(v[2]) \o "." \o ToString(v[3])

-----------------------------------------------------------------------------
(* PIN verification and change.                                            *)

\* Faulty variant: a failed verification leaves the flag as it was.
unlock_user_keep_flag(pin, resp) ==
    LET c == _cmd(\h00, \h21, 0, 0, pin, resp) IN
    IF c.exc # "none" THEN Raise(c.exc, Cur, c.frames)
    ELSE IF c.status = \h9000
        THEN Return([Cur EXCEPT !.user_unlocked = TRUE], c.frames, <<>>)
    ELSE IF BitAnd(c.status, \hFFF0) = \h63C0
        THEN IncorrectPINException(FALSE, BitAnd(c.status, \hF),
                 Cur, c.frames)
    ELSE APDUError(c.status, Cur, c.frames)

\* Faulty variant: the PIN failure mask covers all of sw2 (0x63xx).
unlock_user_wide_mask(pin, resp) ==
    LET c == _cmd(\h00, \h21, 0, 0, pin, resp) IN
    IF c.exc # "none" THEN Raise(c.exc, Cur, c.frames)
    ELSE IF c.status = \h9000
        THEN Return([Cur EXCEPT !.user_unlocked = TRUE], c.frames, <<>>)
    ELSE IF BitAnd(c.status, \hFF00) = \h6300
        THEN IncorrectPINException(FALSE, BitAnd(c.status, \hF),
                 [Cur EXCEPT !.user_unlocked = FALSE], c.frames)
    ELSE APDUError(c.status, Cur, c.frames)

unlock_user(pin, resp) ==
    LET c == _cmd(\h00, \h21, 0, 0, pin, resp) IN
    IF c.exc # "none" THEN Raise(c.exc, Cur, c.frames)
    ELSE IF c.status = \h9000
        THEN Return([Cur EXCEPT !.user_unlocked = TRUE], c.frames, <<>>)
    ELSE IF BitAnd(c.status, \hFFF0) = \h63C0
        THEN IncorrectPINException(FALSE, BitAnd(c.status, \hF),
                 [Cur EXCEPT !.user_unlocked = FALSE], c.frames)
    ELSE APDUError(c.status, Cur, c.frames)

\* Faulty variant: any answer but 0x9000 clears the flag.
unlock_admin_clear_on_error(pin, resp) ==
    LET c == _cmd(\h00, \h21, 0, 1, pin, resp) IN
    IF c.exc # "none" THEN Raise(c.exc, Cur, c.frames)
    ELSE IF c.status = \h9000
        THEN Return([Cur EXCEPT !.admin_unlocked = TRUE], c.frames, <<>>)
    ELSE IF BitAnd(c.status, \hFFF0) = \h63C0
        THEN IncorrectPINException(TRUE, BitAnd(c.status, \hF),
                 [Cur EXCEPT !.admin_unlocked = FALSE], c.frames)
    ELSE APDUError(c.status, [Cur EXCEPT !.admin_unlocked = FALSE], c.frames)

unlock_admin(pin, resp) ==
    LET c == _cmd(\h00, \h21, 0, 1, pin, resp) IN
    IF c.exc # "none" THEN Raise(c.exc, Cur, c.frames)
    ELSE IF c.status = \h9000
        THEN Return([Cur EXCEPT !.admin_unlocked = TRUE], c.frames, <<>>)
    ELSE IF BitAnd(c.status, \hFFF0) = \h63C0
        THEN IncorrectPINException(TRUE, BitAnd(c.status, \hF),
                 [Cur EXCEPT !.admin_unlocked = FALSE], c.frames)
    ELSE APDUError(c.status, Cur, c.frames)

\* Faulty variant: the new PIN is sent first.
SetPinData_new_first(old_pin, new_pin) ==
    <<Len(new_pin)>> \o new_pin \o <<Len(old_pin)>> \o old_pin

\* chr(len(old_pin)) + old_pin + chr(len(new_pin)) + new_pin
SetPinData(old_pin, new_pin) ==
    <<Len(old_pin)>> \o old_pin \o <<Len(new_pin)>> \o new_pin

\* The outcome of _cmd inside _send_set_pin; chr() raises ValueError first.
_send_set_pin(old_pin, new_pin, admin, resp) ==
    IF ~ChrOk(Len(old_pin)) \/ ~ChrOk(Len(new_pin))
    THEN [exc |-> "ValueError", frames |-> <<>>, data |-> <<>>, status |-> 0]
    ELSE _cmd(\h00, \h22, 0, IF admin THEN 1 ELSE 0,
              SetPinData(old_pin, new_pin), resp)

set_admin_pin(old_pin, new_pin, resp) ==
    LET c == _send_set_pin(old_pin, new_pin, TRUE, resp) IN
    IF c.exc # "none" THEN Raise(c.exc, Cur, c.frames)
    ELSE IF c.status = \h9000
        THEN Return([Cur EXCEPT !.admin_unlocked = TRUE], c.frames, <<>>)
    ELSE IF BitAnd(c.status, \hFFF0) = \h63C0
        THEN IncorrectPINException(TRUE, BitAnd(c.status, \hF),
                 [Cur EXCEPT !.admin_unlocked = FALSE], c.frames)
    ELSE APDUError(c.status, Cur, c.frames)

\* Faulty variant: a refused change leaves the flag as it was.
set_user_pin_keep_flag(old_pin, new_pin, resp) ==
    LET c == _send_set_pin(old_pin, new_pin, FALSE, resp) IN
    IF c.exc # "none" THEN Raise(c.exc, Cur, c.frames)
    ELSE IF c.status = \h9000
        THEN Return([Cur EXCEPT !.user_unlocked = TRUE], c.frames, <<>>)
    ELSE IF BitAnd(c.status, \hFFF0) = \h63C0
        THEN IncorrectPINException(FALSE, BitAnd(c.status, \hF),
                 Cur, c.frames)
    ELSE APDUError(c.status, Cur, c.frames)

set_user_pin(old_pin, new_pin, resp) ==
    LET c == _send_set_pin(old_pin, new_pin, FALSE, resp) IN
    IF c.exc # "none" THEN Raise(c.exc, Cur, c.frames)
    ELSE IF c.status = \h9000
        THEN Return([Cur EXCEPT !.user_unlocked = TRUE], c.frames, <<>>)
    ELSE IF BitAnd(c.status, \hFFF0) = \h63C0
        THEN IncorrectPINException(FALSE, BitAnd(c.status, \hF),
                 [Cur EXCEPT !.user_unlocked = FALSE], c.frames)
    ELSE APDUError(c.status, Cur, c.frames)

-----------------------------------------------------------------------------
(* Operations that need admin mode.                                        *)

\* Faulty variant: the range is checked before admin mode is.
_send_set_retry_count_range_first(attempts, admin, resp) ==
    IF ~(0 < attempts /\ attempts < 16) THEN Raise("ValueError", Cur, <<>>)
    ELSE require_admin(
        LET r == _cmd_ok(\h00, \h15, 0, IF admin THEN 1 ELSE 0,
                         <<attempts>>, resp)
        IN  IF r.exc # "none" THEN r ELSE Return(Cur, r.frames, <<>>))

\* Faulty variant: the range check lets 16 through.
_send_set_retry_count_upto16(attempts, admin, resp) ==
    require_admin(
        IF ~(0 < attempts /\ attempts <= 16)
        THEN Raise("ValueError", Cur, <<>>)
        ELSE LET r == _cmd_ok(\h00, \h15, 0, IF admin THEN 1 ELSE 0,
                              <<attempts>>, resp)
             IN  IF r.exc # "none" THEN r ELSE Return(Cur, r.frames, <<>>))

_send_set_retry_count(attempts, admin, resp) ==
    require_admin(
        IF ~(0 < attempts /\ attempts < 16) THEN Raise("ValueError", Cur, <<>>)
        ELSE LET r == _cmd_ok(\h00, \h15, 0, IF admin THEN 1 ELSE 0,
                              <<attempts>>, resp)
             IN  IF r.exc # "none" THEN r ELSE Return(Cur, r.frames, <<>>))

set_user_retry_count(attempts, resp) ==
    _send_set_retry_count(attempts, FALSE, resp)

set_admin_retry_count(attempts, resp) ==
    _send_set_retry_count(attempts, TRUE, resp)

\* Faulty variant: a successful reset unlocks user mode.
reset_user_pin_unlocks(pin, resp) ==
    require_admin(
        LET r == _cmd_ok(\h00, \h14, 0, 0, pin, resp)
        IN  IF r.exc # "none" THEN r
            ELSE Return([Cur EXCEPT !.user_unlocked = TRUE], r.frames, <<>>))

reset_user_pin(pin, resp) ==
    require_admin(
        LET r == _cmd_ok(\h00, \h14, 0, 0, pin, resp)
        IN  IF r.exc # "none" THEN r ELSE Return(Cur, r.frames, <<>>))

\* p2 |= 0x01, 0x02, 0x04
GenerateP2(allow_export, return_private, testnet) ==
    LET a == IF allow_export THEN BitOr(0, \h01) ELSE 0
        b == IF return_private THEN BitOr(a, \h02) ELSE a
    IN  IF testnet THEN BitOr(b, \h04) ELSE b

\* Faulty variant: key_loaded is set before the answer is checked.
generate_master_key_pair_eager(allow_export, return_private, testnet, resp) ==
    require_admin(
        LET r == _cmd_ok(\h00, \h11, 0,
                         GenerateP2(allow_export, return_private, testnet),
                         <<>>, resp)
        IN  IF r.exc # "none" THEN [r EXCEPT !.st.key_loaded = TRUE]
            ELSE Return([Cur EXCEPT !.key_loaded = TRUE], r.frames, r.ret))

generate_master_key_pair(allow_export, return_private, testnet, resp) ==
    require_admin(
        LET r == _cmd_ok(\h00, \h11, 0,
                         GenerateP2(allow_export, return_private, testnet),
                         <<>>, resp)
        IN  IF r.exc # "none" THEN r
            ELSE Return([Cur EXCEPT !.key_loaded = TRUE], r.frames, r.ret))

import_extended_key_pair(serialized_key, allow_export, resp) ==
    require_admin(
        LET r == _cmd_ok(\h00, \h12, 0, IF allow_export THEN 1 ELSE 0,
                         serialized_key, resp)
        IN  IF r.exc # "none" THEN r
            ELSE Return([Cur EXCEPT !.key_loaded = TRUE], r.frames, <<>>))

export_extended_public_key(resp) ==
    require_admin(_cmd_ok(\h00, \h13, 0, 0, <<>>, resp))

-----------------------------------------------------------------------------
(* Operations that need user mode and a key.                               *)

\* Faulty variant: the decorators are applied in the other order.
get_public_key_key_first(path, resp) ==
    require_key(require_user(
        IF pack_path_exc(path) # "none"
        THEN Raise(pack_path_exc(path), Cur, <<>>)
        ELSE _cmd_ok(\h00, \h01, 0, 0, pack_path(path), resp)))

get_public_key(path, resp) ==
    require_user(require_key(
        IF pack_path_exc(path) # "none"
        THEN Raise(pack_path_exc(path), Cur, <<>>)
        ELSE _cmd_ok(\h00, \h01, 0, 0, pack_path(path), resp)))

\* Faulty variant: the digest's length is not checked.
sign_no_length_check(path, digest, resp) ==
    require_user(require_key(
        IF pack_path_exc(path) # "none"
        THEN Raise(pack_path_exc(path), Cur, <<>>)
        ELSE _cmd_ok(\h00, \h02, 0, 0, pack_path(path) \o digest, resp)))

sign(path, digest, resp) ==
    require_user(require_key(
        IF Len(digest) # 32 THEN Raise("ValueError", Cur, <<>>)
        ELSE IF pack_path_exc(path) # "none"
        THEN Raise(pack_path_exc(path), Cur, <<>>)
        ELSE _cmd_ok(\h00, \h02, 0, 0, pack_path(path) \o digest, resp)))

\* Faulty variant: @require_user is missing.
get_header_unguarded(resp) ==
    require_key(_cmd_ok(\h00, \h03, 0, 0, <<>>, resp))

get_header(resp) ==
    require_user(require_key(_cmd_ok(\h00, \h03, 0, 0, <<>>, resp)))

-----------------------------------------------------------------------------
(* The inputs: the arguments callers pass and the answers of the reader.   *)

SeqsUpTo(S, n) == UNION {[1..k -> S] : k \in 0..n}

\* '' and '1234'
Pins == {<<>>, <<\h31, \h32, \h33, \h34>>}

\* Every text of up to MaxPathLen characters, and the paths of the class's
\* docstring: m/0/7 and m/1/4711'.
PathChars == {"7", "'", "/"}
DocPaths ==
    {<<"0", "/", "7">>, <<"1", "/", "4", "7", "1", "1", "'">>}
Paths == SeqsUpTo(PathChars, MaxPathLen) \cup DocPaths

DigestLens == {31, 32, 33}
Digests == {[i \in 1..n |-> \hAB] : n \in DigestLens}

Attempts == {-1, 0, 1, 15, 16, 255}

KeyLens == {0, 78}
Keys == {[i \in 1..n |-> \h07] : n \in KeyLens}

\* Status words: success, PIN failures with 0, 2 and 15 tries left, and
\* words that are neither.
StatusWords ==
    {<<\h90, \h00>>, <<\h63, \hC0>>, <<\h63, \hC2>>, <<\h63, \hCF>>,
     <<\h63, \h0A>>, <<\h69, \h82>>}

\* A success may carry data; the failures carry none.
Responses ==
    {[data |-> <<>>, sw1 |-> w[1], sw2 |-> w[2]] : w \in StatusWords}
    \cup {[data |-> <<\h04, \h88>>, sw1 |-> \h90, sw2 |-> \h00]}

\* Answers to the select frame: the version, the key flag, and answers that
\* are longer or shorter than the four bytes __init__ reads.
SelectData ==
    {<<1, 0, 3, 0>>, <<1, 0, 3, 1>>, <<0, 9, 1, 2>>, <<1, 0, 3, 1, 1>>,
     <<1, 0, 3>>, <<>>}
SelectResponses ==
    {[data |-> d, sw1 |-> w[1], sw2 |-> w[2]] :
        d \in SelectData, w \in StatusWords}

-----------------------------------------------------------------------------
(* The calls.                                                              *)

NoArgs ==
    [pin |-> <<>>, new_pin |-> <<>>, attempts |-> 0, path |-> <<>>,
     digest |-> <<>>, key |-> <<>>, allow_export |-> FALSE,
     return_private |-> FALSE, testnet |-> FALSE]

\* No answer: the call transmitted nothing.
NoResp == [data |-> <<>>, sw1 |-> 0, sw2 |-> 0]

\* The record of a call with outcome r; resp is the reader's answer to the
\* call's frame.
Record(op, args, resp, r) ==
    [op |-> op, args |-> args, resp |-> resp, exc |-> r.exc,
     admin |-> r.admin, tries |-> r.tries, status |-> r.status,
     frames |-> r.frames, ret |-> r.ret, pre |-> Cur]

\* The reader answers only a call that transmits, and whether a call
\* transmits is decided before the answer is read: dry is the call's outcome
\* on no answer at all.  A scripted reader gives its next answer.
Answers(dry, from) ==
    IF dry.frames = <<>> THEN {NoResp}
    ELSE IF reader # <<>> THEN {Head(reader)}
    ELSE from

\* The reader's script after a call with outcome r.
Consumed(r) ==
    IF r.frames # <<>> /\ reader # <<>> THEN Tail(reader) ELSE reader

\* No observer: nothing is noted.
NoHistory ==
    [on |-> FALSE, user_verified |-> FALSE, user_changed |-> FALSE,
     user_pin |-> "none", admin_pin |-> "none"]

\* The observer's notes after a call of op that was answered resp and ended
\* as r.  user_verified: some unlock_user call has returned normally;
\* user_changed: some set_user_pin call has; user_pin and admin_pin: whether
\* the most recent answer of 0x9000 or 0x63C0..0x63CF to a frame of
\* unlock_user or set_user_pin (unlock_admin or set_admin_pin) was 0x9000
\* ("ok") or not ("failed"), "none" while there has been no such answer.
Observe(h, op, resp, r) ==
    LET word == 256 * resp.sw1 + resp.sw2
        answered == r.frames # <<>> /\ word \in {\h9000} \cup (\h63C0..\h63CF)
        verdict == IF word = \h9000 THEN "ok" ELSE "failed"
    IN  IF ~h.on THEN h
        ELSE [h EXCEPT
                !.user_verified = @ \/ (op = "unlock_user" /\ r.exc = "none"),
                !.user_changed = @ \/ (op = "set_user_pin" /\ r.exc = "none"),
                !.user_pin =
                    IF op \in {"unlock_user", "set_user_pin"} /\ answered
                    THEN verdict ELSE @,
                !.admin_pin =
                    IF op \in {"unlock_admin", "set_admin_pin"} /\ answered
                    THEN verdict ELSE @]

\* No callers followed statement by statement: every call runs from its
\* first statement to its last in one step.
NoThreads == [serialized |-> TRUE, pc |-> <<>>, result |-> <<>>, sent |-> <<>>]

\* One call of a method on the session object, with this outcome when the
\* reader answers resp.
Call(op, args, resp, outcome) ==
    /\ phase = "selected"
    /\ \E r \in {outcome} :
        /\ user_unlocked' = r.st.user_unlocked
        /\ admin_unlocked' = r.st.admin_unlocked
        /\ key_loaded' = r.st.key_loaded
        /\ version' = r.st.version
        /\ last' = Record(op, args, resp, r)
        /\ reader' = Consumed(r)
        /\ history' = Observe(history, op, resp, r)
    /\ UNCHANGED <<phase, threads>>

Construct ==
    /\ phase = "new"
    /\ \E resp \in Answers(init(NoResp), SelectResponses) :
        \E r \in {init(resp)} :
            /\ phase' = IF r.exc = "none" THEN "selected" ELSE "failed"
            /\ user_unlocked' = r.st.user_unlocked
            /\ admin_unlocked' = r.st.admin_unlocked
            /\ key_loaded' = r.st.key_loaded
            /\ version' = r.st.version
            /\ last' = Record("__init__", NoArgs, resp, r)
            /\ reader' = Consumed(r)
            /\ history' = Observe(history, "__init__", resp, r)
            /\ UNCHANGED threads

UnlockUser ==
    \E pin \in Pins :
        \E resp \in Answers(unlock_user(pin, NoResp), Responses) :
            Call("unlock_user", [NoArgs EXCEPT !.pin = pin], resp,
                 unlock_user(pin, resp))

UnlockAdmin ==
    \E pin \in Pins :
        \E resp \in Answers(unlock_admin(pin, NoResp), Responses) :
            Call("unlock_admin", [NoArgs EXCEPT !.pin = pin], resp,
                 unlock_admin(pin, resp))

SetAdminPin ==
    \E old_pin \in Pins, new_pin \in Pins :
        \E resp \in Answers(set_admin_pin(old_pin, new_pin, NoResp),
                            Responses) :
            Call("set_admin_pin",
                 [NoArgs EXCEPT !.pin = old_pin, !.new_pin = new_pin], resp,
                 set_admin_pin(old_pin, new_pin, resp))

SetUserPin ==
    \E old_pin \in Pins, new_pin \in Pins :
        \E resp \in Answers(set_user_pin(old_pin, new_pin, NoResp),
                            Responses) :
            Call("set_user_pin",
                 [NoArgs EXCEPT !.pin = old_pin, !.new_pin = new_pin], resp,
                 set_user_pin(old_pin, new_pin, resp))

SetUserRetryCount ==
    \E attempts \in Attempts :
        \E resp \in Answers(set_user_retry_count(attempts, NoResp),
                            Responses) :
            Call("set_user_retry_count",
                 [NoArgs EXCEPT !.attempts = attempts], resp,
                 set_user_retry_count(attempts, resp))

SetAdminRetryCount ==
    \E attempts \in Attempts :
        \E resp \in Answers(set_admin_retry_count(attempts, NoResp),
                            Responses) :
            Call("set_admin_retry_count",
                 [NoArgs EXCEPT !.attempts = attempts], resp,
                 set_admin_retry_count(attempts, resp))

ResetUserPin ==
    \E pin \in Pins :
        \E resp \in Answers(reset_user_pin(pin, NoResp), Responses) :
            Call("reset_user_pin", [NoArgs EXCEPT !.pin = pin], resp,
                 reset_user_pin(pin, resp))

GenerateMasterKeyPair ==
    \E allow_export \in BOOLEAN, return_private \in BOOLEAN,
       testnet \in BOOLEAN :
        \E resp \in Answers(generate_master_key_pair(allow_export,
                                return_private, testnet, NoResp),
                            Responses) :
            Call("generate_master_key_pair",
                 [NoArgs EXCEPT !.allow_export = allow_export,
                                !.return_private = return_private,
                                !.testnet = testnet],
                 resp,
                 generate_master_key_pair(allow_export, return_private,
                                          testnet, resp))

ImportExtendedKeyPair ==
    \E serialized_key \in Keys, allow_export \in BOOLEAN :
        \E resp \in Answers(import_extended_key_pair(serialized_key,
                                allow_export, NoResp),
                            Responses) :
            Call("import_extended_key_pair",
                 [NoArgs EXCEPT !.key = serialized_key,
                                !.allow_export = allow_export],
                 resp,
                 import_extended_key_pair(serialized_key, allow_export,
                                          resp))

ExportExtendedPublicKey ==
    \E resp \in Answers(export_extended_public_key(NoResp), Responses) :
        Call("export_extended_public_key", NoArgs, resp,
             export_extended_public_key(resp))

GetPublicKey ==
    \E path \in Paths :
        \E resp \in Answers(get_public_key(path, NoResp), Responses) :
            Call("get_public_key", [NoArgs EXCEPT !.path = path], resp,
                 get_public_key(path, resp))

Sign ==
    \E path \in Paths, digest \in Digests :
        \E resp \in Answers(sign(path, digest, NoResp), Responses) :
            Call("sign", [NoArgs EXCEPT !.path = path, !.digest = digest],
                 resp, sign(path, digest, resp))

GetHeader ==
    \E resp \in Answers(get_header(NoResp), Responses) :
        Call("get_header", NoArgs, resp, get_header(resp))

-----------------------------------------------------------------------------
(* The session: construction, then any sequence of calls.                  *)

NoCall ==
    [op |-> "none", args |-> NoArgs, resp |-> NoResp, exc |-> "none",
     admin |-> FALSE, tries |-> 0, status |-> 0, frames |-> <<>>,
     ret |-> <<>>,
     pre |-> [user_unlocked |-> FALSE, admin_unlocked |-> FALSE,
              key_loaded |-> FALSE, version |-> <<>>]]

Init ==
    /\ phase = "new"
    /\ user_unlocked = FALSE
    /\ admin_unlocked = FALSE
    /\ key_loaded = FALSE
    /\ version = <<>>
    /\ last = NoCall
    /\ reader = <<>>
    /\ history = NoHistory
    /\ threads = NoThreads

Next ==
    \/ Construct
    \/ UnlockUser
    \/ UnlockAdmin
    \/ SetAdminPin
    \/ SetUserPin
    \/ SetUserRetryCount
    \/ SetAdminRetryCount
    \/ ResetUserPin
    \/ GenerateMasterKeyPair
    \/ ImportExtendedKeyPair
    \/ ExportExtendedPublicKey
    \/ GetPublicKey
    \/ Sign
    \/ GetHeader

Spec == Init /\ [][Next]_vars

-----------------------------------------------------------------------------
(* Status words one by one: a selected session whose reader is scripted    *)
(* with one answer, any of the 256 x 256 status words, to a PIN call.      *)

Byte == 0..255

Pin1234 == <<\h31, \h32, \h33, \h34>>

InitStatus ==
    /\ phase = "selected"
    /\ user_unlocked = FALSE
    /\ admin_unlocked = FALSE
    /\ key_loaded = FALSE
    /\ version = <<1, 0, 3>>
    /\ last = NoCall
    /\ reader \in {<<[data |-> <<>>, sw1 |-> a, sw2 |-> b]>> :
                      a \in Byte, b \in Byte}
    /\ history = NoHistory
    /\ threads = NoThreads

StatusUnlockUser ==
    /\ reader # <<>>
    /\ \E resp \in Answers(unlock_user(Pin1234, NoResp), Responses) :
        Call("unlock_user", [NoArgs EXCEPT !.pin = Pin1234], resp,
             unlock_user(Pin1234, resp))

StatusUnlockAdmin ==
    /\ reader # <<>>
    /\ \E resp \in Answers(unlock_admin(Pin1234, NoResp), Responses) :
        Call("unlock_admin", [NoArgs EXCEPT !.pin = Pin1234], resp,
             unlock_admin(Pin1234, resp))

StatusSetUserPin ==
    /\ reader # <<>>
    /\ \E resp \in Answers(set_user_pin(<<>>, Pin1234, NoResp), Responses) :
        Call("set_user_pin", [NoArgs EXCEPT !.new_pin = Pin1234], resp,
             set_user_pin(<<>>, Pin1234, resp))

StatusSetAdminPin ==
    /\ reader # <<>>
    /\ \E resp \in Answers(set_admin_pin(<<>>, Pin1234, NoResp), Responses) :
        Call("set_admin_pin", [NoArgs EXCEPT !.new_pin = Pin1234], resp,
             set_admin_pin(<<>>, Pin1234, resp))

NextStatus ==
    \/ StatusUnlockUser
    \/ StatusUnlockAdmin
    \/ StatusSetUserPin
    \/ StatusSetAdminPin

SpecStatus == InitStatus /\ [][NextStatus]_vars

-----------------------------------------------------------------------------
(* An observed session: construction, then any sequence of calls, with an  *)
(* observer noting which PIN calls have succeeded and how the reader last  *)
(* answered them.  The calls take one value of each argument.              *)

ObservedResponses ==
    {[data |-> <<>>, sw1 |-> w[1], sw2 |-> w[2]] :
        w \in {<<\h90, \h00>>, <<\h63, \hC0>>, <<\h63, \hC2>>,
               <<\h69, \h82>>}}

ObservedPath == <<"0", "/", "7">>
ObservedDigest == [i \in 1..32 |-> \hAB]
ObservedKey == [i \in 1..78 |-> \h07]

InitObserved ==
    /\ phase = "new"
    /\ user_unlocked = FALSE
    /\ admin_unlocked = FALSE
    /\ key_loaded = FALSE
    /\ version = <<>>
    /\ last = NoCall
    /\ reader = <<>>
    /\ history = [NoHistory EXCEPT !.on = TRUE]
    /\ threads = NoThreads

ObservedUnlockUser ==
    \E resp \in Answers(unlock_user(Pin1234, NoResp), ObservedResponses) :
        Call("unlock_user", [NoArgs EXCEPT !.pin = Pin1234], resp,
             unlock_user(Pin1234, resp))

ObservedUnlockAdmin ==
    \E resp \in Answers(unlock_admin(Pin1234, NoResp), ObservedResponses) :
        Call("unlock_admin", [NoArgs EXCEPT !.pin = Pin1234], resp,
             unlock_admin(Pin1234, resp))

ObservedSetUserPin ==
    \E resp \in Answers(set_user_pin(<<>>, Pin1234, NoResp),
                        ObservedResponses) :
        Call("set_user_pin", [NoArgs EXCEPT !.new_pin = Pin1234], resp,
             set_user_pin(<<>>, Pin1234, resp))

ObservedSetAdminPin ==
    \E resp \in Answers(set_admin_pin(<<>>, Pin1234, NoResp),
                        ObservedResponses) :
        Call("set_admin_pin", [NoArgs EXCEPT !.new_pin = Pin1234], resp,
             set_admin_pin(<<>>, Pin1234, resp))

ObservedSetUserRetryCount ==
    \E resp \in Answers(set_user_retry_count(3, NoResp), ObservedResponses) :
        Call("set_user_retry_count", [NoArgs EXCEPT !.attempts = 3], resp,
             set_user_retry_count(3, resp))

ObservedSetAdminRetryCount ==
    \E resp \in Answers(set_admin_retry_count(3, NoResp),
                        ObservedResponses) :
        Call("set_admin_retry_count", [NoArgs EXCEPT !.attempts = 3], resp,
             set_admin_retry_count(3, resp))

ObservedResetUserPin ==
    \E resp \in Answers(reset_user_pin(Pin1234, NoResp), ObservedResponses) :
        Call("reset_user_pin", [NoArgs EXCEPT !.pin = Pin1234], resp,
             reset_user_pin(Pin1234, resp))

ObservedGenerateMasterKeyPair ==
    \E resp \in Answers(generate_master_key_pair(FALSE, FALSE, FALSE, NoResp),
                        ObservedResponses) :
        Call("generate_master_key_pair", NoArgs, resp,
             generate_master_key_pair(FALSE, FALSE, FALSE, resp))

ObservedImportExtendedKeyPair ==
    \E resp \in Answers(import_extended_key_pair(ObservedKey, FALSE, NoResp),
                        ObservedResponses) :
        Call("import_extended_key_pair", [NoArgs EXCEPT !.key = ObservedKey],
             resp, import_extended_key_pair(ObservedKey, FALSE, resp))

ObservedExportExtendedPublicKey ==
    \E resp \in Answers(export_extended_public_key(NoResp),
                        ObservedResponses) :
        Call("export_extended_public_key", NoArgs, resp,
             export_extended_public_key(resp))

ObservedGetPublicKey ==
    \E resp \in Answers(get_public_key(ObservedPath, NoResp),
                        ObservedResponses) :
        Call("get_public_key", [NoArgs EXCEPT !.path = ObservedPath], resp,
             get_public_key(ObservedPath, resp))

ObservedSign ==
    \E resp \in Answers(sign(ObservedPath, ObservedDigest, NoResp),
                        ObservedResponses) :
        Call("sign",
             [NoArgs EXCEPT !.path = ObservedPath, !.digest = ObservedDigest],
             resp, sign(ObservedPath, ObservedDigest, resp))

ObservedGetHeader ==
    \E resp \in Answers(get_header(NoResp), ObservedResponses) :
        Call("get_header", NoArgs, resp, get_header(resp))

NextObserved ==
    \/ Construct
    \/ ObservedUnlockUser
    \/ ObservedUnlockAdmin
    \/ ObservedSetUserPin
    \/ ObservedSetAdminPin
    \/ ObservedSetUserRetryCount
    \/ ObservedSetAdminRetryCount
    \/ ObservedResetUserPin
    \/ ObservedGenerateMasterKeyPair
    \/ ObservedImportExtendedKeyPair
    \/ ObservedExportExtendedPublicKey
    \/ ObservedGetPublicKey
    \/ ObservedSign
    \/ ObservedGetHeader

SpecObserved == InitObserved /\ [][NextObserved]_vars

-----------------------------------------------------------------------------
(* Callers sharing one object.  A call is followed statement by statement: *)
(* sign runs the check of require_user, the check of require_key, the     *)
(* transmit of its frame and the receipt of the answer as separate steps;  *)
(* unlock_user runs the transmit of its frame and then the receipt of the  *)
(* answer with the assignment of the flag.  Steps of different callers     *)
(* interleave freely, unless the callers serialize their calls             *)
(* (threads.serialized): then a call starts only when no call is running.  *)
(* threads.sent holds the frame last handed to the reader and the value    *)
(* user_unlocked had at that moment.                                       *)

Callers == 1..MaxCallers

InitThreads ==
    /\ phase = "selected"
    /\ user_unlocked = FALSE
    /\ admin_unlocked = TRUE
    /\ key_loaded = TRUE
    /\ version = <<1, 0, 3>>
    /\ last = NoCall
    /\ reader = <<>>
    /\ history = NoHistory
    /\ threads \in {[serialized |-> b,
                     pc |-> [c \in Callers |-> "idle"],
                     result |-> [c \in Callers |-> "none"],
                     sent |-> <<>>] : b \in BOOLEAN}

\* Caller c may start a call.
Free(c) ==
    /\ threads.pc[c] = "idle"
    /\ threads.serialized => \A d \in Callers : threads.pc[d] = "idle"

\* What a decorator's guard hands on when it passes: the wrapped function
\* has yet to run.
Passed == Return(Cur, <<>>, <<>>)

\* The frame handed to reader.transmit by caller c, as the reader sees it.
Sent(c, frame) ==
    <<[caller |-> c, frame |-> frame, user_unlocked |-> user_unlocked]>>

\* sign(path, digest), the check of require_user.
SignRequireUser(c) ==
    /\ phase = "selected"
    /\ Free(c)
    /\ \E g \in {require_user(Passed)} :
        threads' = [threads EXCEPT
                       !.pc[c] = IF g.exc = "none" THEN "sign_require_key"
                                 ELSE "idle",
                       !.result[c] = IF g.exc = "none" THEN "running"
                                     ELSE g.exc]
    /\ UNCHANGED <<phase, user_unlocked, admin_unlocked, key_loaded, version,
                   last, reader, history>>

\* sign(path, digest), the check of require_key.
SignRequireKey(c) ==
    /\ threads.pc[c] = "sign_require_key"
    /\ \E g \in {require_key(Passed)} :
        threads' = [threads EXCEPT
                       !.pc[c] = IF g.exc = "none" THEN "sign_transmit"
                                 ELSE "idle",
                       !.result[c] = IF g.exc = "none" THEN "running"
                                     ELSE g.exc]
    /\ UNCHANGED <<phase, user_unlocked, admin_unlocked, key_loaded, version,
                   last, reader, history>>

\* sign(path, digest), the body up to reader.transmit.
SignTransmit(c) ==
    /\ threads.pc[c] = "sign_transmit"
    /\ \E t \in {_cmd(\h00, \h02, 0, 0,
                       pack_path(ObservedPath) \o ObservedDigest, NoResp)} :
        threads' = [threads EXCEPT !.pc[c] = "sign_receive",
                                   !.sent = Sent(c, t.frames[1])]
    /\ UNCHANGED <<phase, user_unlocked, admin_unlocked, key_loaded, version,
                   last, reader, history>>

\* sign(path, digest), from the reader's answer to the return or raise.
SignReceive(c) ==
    /\ threads.pc[c] = "sign_receive"
    /\ \E resp \in ObservedResponses :
        \E r \in {_cmd_ok(\h00, \h02, 0, 0,
                          pack_path(ObservedPath) \o ObservedDigest, resp)} :
            threads' = [threads EXCEPT
                           !.pc[c] = "idle",
                           !.result[c] = IF r.exc = "none" THEN "returned"
                                         ELSE r.exc]
    /\ UNCHANGED <<phase, user_unlocked, admin_unlocked, key_loaded, version,
                   last, reader, history>>

\* unlock_user(pin), up to reader.transmit.
UnlockUserTransmit(c) ==
    /\ phase = "selected"
    /\ Free(c)
    /\ \E t \in {_cmd(\h00, \h21, 0, 0, Pin1234, NoResp)} :
        threads' = [threads EXCEPT !.pc[c] = "unlock_user_receive",
                                   !.result[c] = "running",
                                   !.sent = Sent(c, t.frames[1])]
    /\ UNCHANGED <<phase, user_unlocked, admin_unlocked, key_loaded, version,
                   last, reader, history>>

\* unlock_user(pin), from the reader's answer: the flag is assigned and the
\* call returns or raises.
UnlockUserReceive(c) ==
    /\ threads.pc[c] = "unlock_user_receive"
    /\ \E resp \in ObservedResponses :
        \E r \in {unlock_user(Pin1234, resp)} :
            /\ user_unlocked' = r.st.user_unlocked
            /\ admin_unlocked' = r.st.admin_unlocked
            /\ key_loaded' = r.st.key_loaded
            /\ version' = r.st.version
            /\ threads' = [threads EXCEPT
                              !.pc[c] = "idle",
                              !.result[c] = IF r.exc = "none" THEN "returned"
                                            ELSE r.exc]
    /\ UNCHANGED <<phase, last, reader, history>>

NextThreads ==
    \E c \in Callers :
        \/ SignRequireUser(c)
        \/ SignRequireKey(c)
        \/ SignTransmit(c)
        \/ SignReceive(c)
        \/ UnlockUserTransmit(c)
        \/ UnlockUserReceive(c)

SpecThreads == InitThreads /\ [][NextThreads]_vars

-----------------------------------------------------------------------------
(* Long arguments: one call, with an argument that makes the payload of    *)
(* its frame about 255 or about 4095 bytes long, on a session that has     *)
(* both modes unlocked and a key loaded.                                   *)

LongLens == {254, 255, 256, 257, 4095, 4096}
LongStrings == {[i \in 1..n |-> \h31] : n \in LongLens}

\* '0/0/.../0' with n components, which packs to 4 * n bytes.
ZerosPath(n) == [i \in 1..(2 * n - 1) |-> IF i % 2 = 1 THEN "0" ELSE "/"]

\* Paths that pack to 252 and 256 bytes, and, with a 32-byte digest after
\* them, to 252 and 256 bytes.
LongPaths == {ZerosPath(63), ZerosPath(64)}
LongSignPaths == {ZerosPath(55), ZerosPath(56)}

InitLong ==
    /\ phase = "selected"
    /\ user_unlocked = TRUE
    /\ admin_unlocked = TRUE
    /\ key_loaded = TRUE
    /\ version = <<1, 0, 3>>
    /\ last = NoCall
    /\ reader = <<>>
    /\ history = NoHistory
    /\ threads = NoThreads

LongUnlockUser ==
    /\ last.op = "none"
    /\ \E pin \in LongStrings :
        \E resp \in Answers(unlock_user(pin, NoResp), Responses) :
            Call("unlock_user", [NoArgs EXCEPT !.pin = pin], resp,
                 unlock_user(pin, resp))

LongUnlockAdmin ==
    /\ last.op = "none"
    /\ \E pin \in LongStrings :
        \E resp \in Answers(unlock_admin(pin, NoResp), Responses) :
            Call("unlock_admin", [NoArgs EXCEPT !.pin = pin], resp,
                 unlock_admin(pin, resp))

LongSetUserPin ==
    /\ last.op = "none"
    /\ \E long \in LongStrings :
        \E pins \in {<<long, Pin1234>>, <<Pin1234, long>>} :
            \E resp \in Answers(set_user_pin(pins[1], pins[2], NoResp),
                                Responses) :
                Call("set_user_pin",
                     [NoArgs EXCEPT !.pin = pins[1], !.new_pin = pins[2]],
                     resp, set_user_pin(pins[1], pins[2], resp))

LongSetAdminPin ==
    /\ last.op = "none"
    /\ \E long \in LongStrings :
        \E pins \in {<<long, Pin1234>>, <<Pin1234, long>>} :
            \E resp \in Answers(set_admin_pin(pins[1], pins[2], NoResp),
                                Responses) :
                Call("set_admin_pin",
                     [NoArgs EXCEPT !.pin = pins[1], !.new_pin = pins[2]],
                     resp, set_admin_pin(pins[1], pins[2], resp))

LongResetUserPin ==
    /\ last.op = "none"
    /\ \E pin \in LongStrings :
        \E resp \in Answers(reset_user_pin(pin, NoResp), Responses) :
            Call("reset_user_pin", [NoArgs EXCEPT !.pin = pin], resp,
                 reset_user_pin(pin, resp))

LongImportExtendedKeyPair ==
    /\ last.op = "none"
    /\ \E serialized_key \in LongStrings :
        \E resp \in Answers(import_extended_key_pair(serialized_key, FALSE,
                                NoResp),
                            Responses) :
            Call("import_extended_key_pair",
                 [NoArgs EXCEPT !.key = serialized_key], resp,
                 import_extended_key_pair(serialized_key, FALSE, resp))

LongGetPublicKey ==
    /\ last.op = "none"
    /\ \E path \in LongPaths :
        \E resp \in Answers(get_public_key(path, NoResp), Responses) :
            Call("get_public_key", [NoArgs EXCEPT !.path = path], resp,
                 get_public_key(path, resp))

LongSign ==
    /\ last.op = "none"
    /\ \E path \in LongSignPaths :
        \E resp \in Answers(sign(path, ObservedDigest, NoResp), Responses) :
            Call("sign",
                 [NoArgs EXCEPT !.path = path, !.digest = ObservedDigest],
                 resp, sign(path, ObservedDigest, resp))

NextLong ==
    \/ LongUnlockUser
    \/ LongUnlockAdmin
    \/ LongSetUserPin
    \/ LongSetAdminPin
    \/ LongResetUserPin
    \/ LongImportExtendedKeyPair
    \/ LongGetPublicKey
    \/ LongSign

SpecLong == InitLong /\ [][NextLong]_vars

-----------------------------------------------------------------------------
(* pack_path alone: the module-level function applied once to a path, with *)
(* no session object.  The path is the argument of the call about to be    *)
(* made.                                                                   *)

PackChars == {"0", "1", "9", "'", "/"}

\* 2147483647, 2147483648, 4294967295 and 4294967296: the integers around
\* the sign bit and around the end of the 32-bit range.
Text2147483647 == <<"2", "1", "4", "7", "4", "8", "3", "6", "4", "7">>
Text2147483648 == <<"2", "1", "4", "7", "4", "8", "3", "6", "4", "8">>
Text4294967295 == <<"4", "2", "9", "4", "9", "6", "7", "2", "9", "5">>
Text4294967296 == <<"4", "2", "9", "4", "9", "6", "7", "2", "9", "6">>

WidePaths ==
    {Text2147483647, Text2147483648, Text4294967295, Text4294967296,
     Text2147483647 \o <<"'">>, Text2147483648 \o <<"'">>,
     Text4294967295 \o <<"'">>, Text4294967296 \o <<"'">>,
     <<"0", "/">> \o Text2147483648 \o <<"/", "1", "'">>,
     <<"4", "4", "'", "/", "0", "'", "/", "0", "'", "/", "0", "/", "7">>}

PackPaths == SeqsUpTo(PackChars, MaxPackLen) \cup DocPaths \cup WidePaths

InitPath ==
    /\ phase = "new"
    /\ user_unlocked = FALSE
    /\ admin_unlocked = FALSE
    /\ key_loaded = FALSE
    /\ version = <<>>
    /\ \E path \in PackPaths : last = [NoCall EXCEPT !.args.path = path]
    /\ reader = <<>>
    /\ history = NoHistory
    /\ threads = NoThreads

\* pack_path(path): it returns the packed bytes or raises.
PackPath ==
    /\ phase = "new"
    /\ last.op = "none"
    /\ \E exc \in {pack_path_exc(last.args.path)} :
        last' = [last EXCEPT
                    !.op = "pack_path",
                    !.exc = exc,
                    !.ret = IF exc = "none" THEN pack_path(last.args.path)
                            ELSE <<>>]
    /\ UNCHANGED <<phase, user_unlocked, admin_unlocked, key_loaded, version,
                   reader, history, threads>>

NextPath == PackPath

SpecPath == InitPath /\ [][NextPath]_vars

-----------------------------------------------------------------------------
(* Properties.  Each is stated on the record of the last call: what the    *)
(* call was given, what the reader answered, how it ended, what it         *)
(* transmitted, and the fields before (last.pre) and after (Cur) it.       *)

\* The status word of an answer.
StatusOf(resp) == 256 * resp.sw1 + resp.sw2

\* The wire layout of a frame: CLA 0, INS, P1, P2, LEN, payload.
Frame(ins, p1, p2, data) == <<0, ins, p1, p2, Len(data)>> \o data

Transmitted == last.frames # <<>>

PinFailedWords == \h63C0..\h63CF

UserGated == {"get_public_key", "sign", "get_header"}

AdminGated ==
    {"set_user_retry_count", "set_admin_retry_count", "reset_user_pin",
     "generate_master_key_pair", "import_extended_key_pair",
     "export_extended_public_key"}

VerifyOps == {"unlock_user", "unlock_admin"}
ChangeOps == {"set_user_pin", "set_admin_pin"}
AdminMode(op) == op \in {"unlock_admin", "set_admin_pin"}

\* The unlocked flag of the mode a PIN call is about.
ModeFlag(op, st) ==
    IF AdminMode(op) THEN st.admin_unlocked ELSE st.user_unlocked

\* C1: get_public_key, sign and get_header check the user guard before the
\* key guard: with user mode locked the call raises
\* PINModeLockedException(False) whether or not a key is loaded; with user
\* mode unlocked and no key it raises NoKeyLoadedException; a frame is
\* transmitted only when user mode is unlocked and a key is loaded.
C1_UserGuardBeforeKeyGuard ==
    last.op \in UserGated =>
        /\ ~last.pre.user_unlocked =>
              last.exc = "PINModeLockedException" /\ last.admin = FALSE
        /\ last.pre.user_unlocked /\ ~last.pre.key_loaded =>
              last.exc = "NoKeyLoadedException"
        /\ Transmitted => last.pre.user_unlocked /\ last.pre.key_loaded

\* Both guards would fail, and the user guard answers.
C1_Witness ==
    /\ last.op \in UserGated
    /\ ~last.pre.user_unlocked
    /\ ~last.pre.key_loaded
    /\ last.exc = "PINModeLockedException"
    /\ last.admin = FALSE

\* C2: with admin mode locked, set_user_retry_count, set_admin_retry_count,
\* reset_user_pin, generate_master_key_pair, import_extended_key_pair and
\* export_extended_public_key raise PINModeLockedException(True), whatever
\* the arguments and whatever user_unlocked and key_loaded are.
C2_AdminGuard ==
    last.op \in AdminGated /\ ~last.pre.admin_unlocked =>
        last.exc = "PINModeLockedException" /\ last.admin = TRUE

\* An out-of-range retry count with admin mode locked, user mode unlocked.
C2_Witness ==
    /\ last.op = "set_admin_retry_count"
    /\ last.args.attempts = 16
    /\ ~last.pre.admin_unlocked
    /\ last.pre.user_unlocked
    /\ last.pre.key_loaded
    /\ last.exc = "PINModeLockedException"
    /\ last.admin = TRUE

\* C3: a call that raises PINModeLockedException or NoKeyLoadedException has
\* transmitted no frame and has left user_unlocked, admin_unlocked,
\* key_loaded and version as they were.
C3_GuardFailureHasNoEffect ==
    last.exc \in {"PINModeLockedException", "NoKeyLoadedException"} =>
        /\ last.frames = <<>>
        /\ Cur = last.pre

\* The key guard fails in a session with both modes unlocked.
C3_Witness ==
    /\ last.exc = "NoKeyLoadedException"
    /\ last.pre.user_unlocked
    /\ last.pre.admin_unlocked
    /\ last.frames = <<>>
    /\ Cur = last.pre

\* C4: unlock_user and unlock_admin, in any state: on 0x9000 the flag of the
\* mode is True afterwards and the call returns; on 0x63Cn the flag is False
\* afterwards, also when it was True before, and the call raises
\* IncorrectPINException(admin = the mode, tries_remaining = n).
C4_VerifySetsAndClears ==
    last.op \in VerifyOps /\ Transmitted =>
        /\ StatusOf(last.resp) = \h9000 =>
              last.exc = "none" /\ ModeFlag(last.op, Cur)
        /\ StatusOf(last.resp) \in PinFailedWords =>
              /\ ~ModeFlag(last.op, Cur)
              /\ last.exc = "IncorrectPINException"
              /\ last.admin = AdminMode(last.op)
              /\ last.tries = StatusOf(last.resp) - \h63C0

\* A failed verification locks a mode that was unlocked.
C4_Witness ==
    /\ last.op = "unlock_user"
    /\ last.pre.user_unlocked
    /\ StatusOf(last.resp) = \h63C2
    /\ ~user_unlocked
    /\ last.exc = "IncorrectPINException"
    /\ last.tries = 2

\* C5: set_user_pin and set_admin_pin have no unlock precondition and
\* transmit one frame, INS 0x22, P2 1 for admin and 0 for user, with payload
\* len(old) || old || len(new) || new; on 0x9000 the flag of the mode is
\* True afterwards, on 0x63Cn the call raises IncorrectPINException(admin =
\* the mode, tries_remaining = n), on any other status it raises the generic
\* APDU error.
C5_ChangePin ==
    last.op \in ChangeOps =>
        /\ last.frames =
              <<Frame(\h22, 0, IF AdminMode(last.op) THEN 1 ELSE 0,
                      <<Len(last.args.pin)>> \o last.args.pin
                      \o <<Len(last.args.new_pin)>> \o last.args.new_pin)>>
        /\ StatusOf(last.resp) = \h9000 =>
              last.exc = "none" /\ ModeFlag(last.op, Cur)
        /\ StatusOf(last.resp) \in PinFailedWords =>
              /\ last.exc = "IncorrectPINException"
              /\ last.admin = AdminMode(last.op)
              /\ last.tries = StatusOf(last.resp) - \h63C0
        /\ StatusOf(last.resp) \notin PinFailedWords \cup {\h9000} =>
              last.exc = "Exception" /\ last.status = StatusOf(last.resp)

\* A PIN change in a session with both modes locked unlocks admin mode.
C5_Witness ==
    /\ last.op = "set_admin_pin"
    /\ ~last.pre.user_unlocked
    /\ ~last.pre.admin_unlocked
    /\ last.args.pin = <<>>
    /\ last.args.new_pin = Pin1234
    /\ last.frames = <<(<<0, \h22, 0, 1, 6, 0, 4, \h31, \h32, \h33, \h34>>)>>
    /\ StatusOf(last.resp) = \h9000
    /\ admin_unlocked

\* C6: with admin mode unlocked, generate_master_key_pair and
\* import_extended_key_pair set key_loaded exactly on 0x9000 (and generate
\* returns the answer's data); on any other status the call raises the
\* generic APDU error and key_loaded is what it was.
C6_KeyLoadedOnSuccess ==
    /\ last.op \in {"generate_master_key_pair", "import_extended_key_pair"}
    /\ last.pre.admin_unlocked
    =>
        /\ Len(last.frames) = 1
        /\ StatusOf(last.resp) = \h9000 =>
              /\ last.exc = "none"
              /\ key_loaded
              /\ last.op = "generate_master_key_pair" =>
                    last.ret = last.resp.data
        /\ StatusOf(last.resp) # \h9000 =>
              /\ last.exc = "Exception"
              /\ last.status = StatusOf(last.resp)
              /\ key_loaded = last.pre.key_loaded

\* A refused generation leaves a session without a key without one.
C6_Witness ==
    /\ last.op = "generate_master_key_pair"
    /\ last.pre.admin_unlocked
    /\ ~last.pre.key_loaded
    /\ StatusOf(last.resp) = \h6982
    /\ last.exc = "Exception"
    /\ ~key_loaded

\* C7: __init__ transmits exactly one frame, the select frame (INS 0xA4); on
\* a status other than 0x9000 it raises and no object is obtained; on 0x9000
\* with the four answer bytes it reads, the object has version = bytes 0..2,
\* key_loaded = (byte 3 = 1) and both unlocked flags False; [1,0,3,0] gives
\* version "1.0.3" and key_loaded False.
C7_Construction ==
    last.op = "__init__" =>
        /\ Len(last.frames) = 1
        /\ last.frames[1][2] = \hA4
        /\ StatusOf(last.resp) # \h9000 => phase = "failed"
        /\ StatusOf(last.resp) = \h9000 /\ Len(last.resp.data) >= 4 =>
              /\ phase = "selected"
              /\ version = SubSeq(last.resp.data, 1, 3)
              /\ key_loaded = (last.resp.data[4] = 1)
              /\ ~user_unlocked
              /\ ~admin_unlocked
        /\ StatusOf(last.resp) = \h9000 /\ last.resp.data = <<1, 0, 3, 0>> =>
              version_text(version) = "1.0.3" /\ ~key_loaded

\* An answer whose byte 3 is neither 0 nor 1.
C7_Witness ==
    /\ last.op = "__init__"
    /\ phase = "selected"
    /\ last.resp.data = <<0, 9, 1, 2>>
    /\ version_text(version) = "0.9.1"
    /\ ~key_loaded
    /\ ~user_unlocked
    /\ ~admin_unlocked

\* How a PIN call classified the status word it received.
Classified ==
    CASE last.exc = "none" -> <<"Success", 0>>
      [] last.exc = "IncorrectPINException" -> <<"PinFailed", last.tries>>
      [] last.exc = "Exception" -> <<"Unclassified", last.status>>
      [] OTHER -> <<"other", 0>>

\* C8 as stated: over all (sw1, sw2), (0x90, 0x00) is Success, (0x63, 0x0A)
\* is PinFailed with 10 tries remaining, everything else is Unclassified.
C8_AsStated ==
    last.op \in VerifyOps \cup ChangeOps /\ Transmitted =>
        Classified =
            IF last.resp.sw1 = \h90 /\ last.resp.sw2 = \h00
                THEN <<"Success", 0>>
            ELSE IF last.resp.sw1 = \h63 /\ last.resp.sw2 = \h0A
                THEN <<"PinFailed", 10>>
            ELSE <<"Unclassified", StatusOf(last.resp)>>

\* C8: over all (sw1, sw2), (0x90, 0x00) is Success; (0x63, 0xC0 + n) with
\* n in 0..15 is PinFailed with n tries remaining, so 10 tries remaining is
\* (0x63, 0xCA); everything else, (0x63, 0x0A) included, is Unclassified.
C8_StatusClassification ==
    last.op \in VerifyOps \cup ChangeOps /\ Transmitted =>
        Classified =
            IF last.resp.sw1 = \h90 /\ last.resp.sw2 = \h00
                THEN <<"Success", 0>>
            ELSE IF last.resp.sw1 = \h63 /\ last.resp.sw2 \in \hC0..\hCF
                THEN <<"PinFailed", last.resp.sw2 - \hC0>>
            ELSE <<"Unclassified", StatusOf(last.resp)>>

\* The word that reports 10 tries remaining.
C8_Witness ==
    /\ last.op = "unlock_user"
    /\ last.resp.sw1 = \h63
    /\ last.resp.sw2 = \hCA
    /\ Classified = <<"PinFailed", 10>>

\* C9: with admin mode unlocked, set_user_retry_count and
\* set_admin_retry_count raise ValueError and transmit nothing when the
\* count is outside 1..15; within 1..15 they transmit exactly one frame, INS
\* 0x15, P2 1 for admin and 0 for user, with the count as its one payload
\* byte, and return when the answer is 0x9000.
C9_RetryCountRange ==
    /\ last.op \in {"set_user_retry_count", "set_admin_retry_count"}
    /\ last.pre.admin_unlocked
    =>
        /\ last.args.attempts \notin 1..15 =>
              last.exc = "ValueError" /\ last.frames = <<>>
        /\ last.args.attempts \in 1..15 =>
              /\ last.frames =
                    <<Frame(\h15, 0,
                            IF last.op = "set_admin_retry_count" THEN 1 ELSE 0,
                            <<last.args.attempts>>)>>
              /\ StatusOf(last.resp) = \h9000 => last.exc = "none"

\* The first count above the range.
C9_Witness ==
    /\ last.op = "set_user_retry_count"
    /\ last.pre.admin_unlocked
    /\ last.args.attempts = 16
    /\ last.exc = "ValueError"
    /\ last.frames = <<>>

\* C10 as stated: sign with a digest that is not 32 bytes long raises
\* ValueError, transmits nothing and leaves the fields as they were.
C10_AsStated ==
    last.op = "sign" /\ Len(last.args.digest) # 32 =>
        /\ last.exc = "ValueError"
        /\ last.frames = <<>>
        /\ Cur = last.pre

\* C10: sign with a digest that is not 32 bytes long transmits nothing and
\* leaves the fields as they were; it raises ValueError when user mode is
\* unlocked and a key is loaded, and the failure of the guard that fails
\* otherwise.
C10_DigestLength ==
    last.op = "sign" /\ Len(last.args.digest) # 32 =>
        /\ last.frames = <<>>
        /\ Cur = last.pre
        /\ last.exc =
              IF ~last.pre.user_unlocked THEN "PINModeLockedException"
              ELSE IF ~last.pre.key_loaded THEN "NoKeyLoadedException"
              ELSE "ValueError"

\* A 33-byte digest on a path that packs, past both guards.
C10_Witness ==
    /\ last.op = "sign"
    /\ Len(last.args.digest) = 33
    /\ last.args.path = <<"0", "/", "7">>
    /\ last.pre.user_unlocked
    /\ last.pre.key_loaded
    /\ last.exc = "ValueError"
    /\ last.frames = <<>>

\* C15: when unlock_user or unlock_admin is answered with a status word that
\* is neither 0x9000 nor 0x63C0..0x63CF, the call raises the generic
\* Exception carrying that status word, and every field of the object, the
\* unlocked flag of the mode being verified included, is as it was before
\* the call.
C15_UnclassifiedKeepsFlags ==
    /\ last.op \in VerifyOps
    /\ Transmitted
    /\ StatusOf(last.resp) # \h9000
    /\ StatusOf(last.resp) \notin PinFailedWords
    =>
        /\ last.exc = "Exception"
        /\ last.status = StatusOf(last.resp)
        /\ Cur = last.pre

\* Admin mode was unlocked, unlock_admin is answered 0x6982, and admin mode
\* is still unlocked.
C15_Witness ==
    /\ last.op = "unlock_admin"
    /\ last.pre.admin_unlocked
    /\ StatusOf(last.resp) = \h6982
    /\ last.exc = "Exception"
    /\ admin_unlocked

\* The operations C16 names as leaving both unlocked flags alone.
FlagNeutralOps == AdminGated \cup UserGated

\* C16: a call changes user_unlocked only if it is unlock_user or
\* set_user_pin, and admin_unlocked only if it is unlock_admin or
\* set_admin_pin; the admin-gated and user-gated operations leave both
\* flags as they were however they end; key_loaded is changed only by
\* generate_master_key_pair and import_extended_key_pair; no call on the
\* constructed object changes version.
C16_FrameEffects ==
    last.op \notin {"none", "__init__"} =>
        /\ user_unlocked # last.pre.user_unlocked =>
              last.op \in {"unlock_user", "set_user_pin"}
        /\ admin_unlocked # last.pre.admin_unlocked =>
              last.op \in {"unlock_admin", "set_admin_pin"}
        /\ last.op \in FlagNeutralOps =>
              /\ user_unlocked = last.pre.user_unlocked
              /\ admin_unlocked = last.pre.admin_unlocked
        /\ key_loaded # last.pre.key_loaded =>
              last.op \in {"generate_master_key_pair",
                           "import_extended_key_pair"}
        /\ version = last.pre.version

\* A successful reset_user_pin with user mode locked: it stays locked.
C16_Witness ==
    /\ last.op = "reset_user_pin"
    /\ last.exc = "none"
    /\ Transmitted
    /\ ~last.pre.user_unlocked
    /\ ~user_unlocked

\* C14 as stated: get_public_key and sign accept the empty path: past both
\* guards (and with a 32-byte digest) the call transmits one frame whose
\* path part is empty, the payload being nothing for get_public_key and the
\* digest alone for sign.
C14_AsStated ==
    /\ last.op \in {"get_public_key", "sign"}
    /\ last.args.path = <<>>
    /\ last.pre.user_unlocked
    /\ last.pre.key_loaded
    /\ last.op = "sign" => Len(last.args.digest) = 32
    =>
        /\ last.exc \notin {"ValueError", "struct.error"}
        /\ last.frames =
              <<Frame(IF last.op = "sign" THEN \h02 ELSE \h01, 0, 0,
                      IF last.op = "sign" THEN last.args.digest ELSE <<>>)>>

\* A path in the documented syntax: components separated by "/", each one
\* or more decimal digits with an optional closing apostrophe.
WellFormedPath(path) ==
    /\ Len(path) > 0
    /\ path[1] \in Digits
    /\ path[Len(path)] \in Digits \cup {"'"}
    /\ \A i \in 2..Len(path) :
          /\ path[i] \in Digits \cup {"'", "/"}
          /\ path[i] = "'" => path[i - 1] \in Digits
          /\ path[i] = "/" => path[i - 1] \in Digits \cup {"'"}
          /\ path[i] \in Digits => path[i - 1] \in Digits \cup {"/"}

\* The call recorded in c passed its guards and the checks of its
\* arguments: the mode it needs was unlocked and the key loaded before it,
\* the retry count is within 1..15, the digest is 32 bytes long and the
\* path is well formed.
ChecksPass(c) ==
    /\ c.op # "none"
    /\ c.op \in AdminGated => c.pre.admin_unlocked
    /\ c.op \in UserGated => c.pre.user_unlocked /\ c.pre.key_loaded
    /\ c.op \in {"set_user_retry_count", "set_admin_retry_count"} =>
          c.args.attempts \in 1..15
    /\ c.op = "sign" => Len(c.args.digest) = 32
    /\ c.op \in {"get_public_key", "sign"} => WellFormedPath(c.args.path)

\* Exceptions raised before anything is transmitted.
LocalErrors ==
    {"PINModeLockedException", "NoKeyLoadedException", "ValueError",
     "struct.error", "TypeError"}

\* C17: every call, the constructor included, hands at most one frame to
\* reader.transmit, and exactly one when its guards and argument checks
\* pass (equally: whenever it does not end in a guard or argument error);
\* a call whose frame is answered with anything but 0x9000 raises, having
\* transmitted that one frame only; and a verify or change-PIN call made
\* right after a call that reported 0 tries remaining still transmits its
\* frame.
C17_OneExchange ==
    [][/\ Len(last'.frames) <= 1
       /\ ChecksPass(last') => Len(last'.frames) = 1
       /\ last'.exc \notin LocalErrors => Len(last'.frames) = 1
       /\ last'.frames # <<>> /\ StatusOf(last'.resp) # \h9000 =>
             last'.exc \in {"Exception", "IncorrectPINException"}
       /\ /\ last.exc = "IncorrectPINException"
          /\ last.tries = 0
          /\ last'.op \in VerifyOps \cup ChangeOps
          => Len(last'.frames) = 1]_vars

\* unlock_user is answered 0x63C0: one frame went out, the call raised with
\* 0 tries remaining.
C17_Witness ==
    /\ last.op = "unlock_user"
    /\ StatusOf(last.resp) = \h63C0
    /\ last.exc = "IncorrectPINException"
    /\ last.tries = 0
    /\ Len(last.frames) = 1

\* The j-th 32-bit word of packed bytes, big-endian, as [hi, lo].
PackedWord(bytes, j) ==
    [hi |-> 256 * bytes[4 * j - 3] + bytes[4 * j - 2],
     lo |-> 256 * bytes[4 * j - 1] + bytes[4 * j]]

\* w & 0x80000000 # 0 and w & 0x7FFFFFFF.
TopBitSet(w) == w.hi >= \h8000
MaskHardening(w) == [w EXCEPT !.hi = w.hi % \h8000]

\* The number of components of a path: one more than its separators.
ComponentCount(path) == 1 + Cardinality({i \in 1..Len(path) : path[i] = "/"})

\* The integer written in component j of the path: the component without
\* its closing apostrophe.
ComponentInt(path, j) == IntValue(IndexText(Split(path)[j]))
ComponentHardened(path, j) == Hardened(Split(path)[j])

Packed == last.op = "pack_path" /\ last.exc = "none"

\* C12 as stated: pack_path returns four bytes per component, and word j
\* with the hardening bit masked off is the integer written in component j.
C12_AsStated ==
    Packed =>
        /\ Len(last.ret) = 4 * ComponentCount(last.args.path)
        /\ \A j \in 1..ComponentCount(last.args.path) :
              MaskHardening(PackedWord(last.ret, j))
                  = ComponentInt(last.args.path, j)

\* C12: for every path pack_path accepts, with k components, it returns
\* exactly 4 * k bytes, word j being the big-endian word of component j;
\* word j with the hardening bit masked off is the integer written in
\* component j when that integer is below 2^31, and that integer less 2^31
\* when it is 2^31 or more.
C12_PackPath ==
    Packed =>
        /\ Len(last.ret) = 4 * ComponentCount(last.args.path)
        /\ \A j \in 1..ComponentCount(last.args.path) :
              LET n == ComponentInt(last.args.path, j)
                  w == MaskHardening(PackedWord(last.ret, j))
              IN  IF n.hi < \h8000 THEN w = n
                  ELSE w = [n EXCEPT !.hi = n.hi - \h8000]

\* 1/4711' packs to 00 00 00 01 80 00 12 67.
C12_Witness ==
    /\ Packed
    /\ last.args.path = <<"1", "/", "4", "7", "1", "1", "'">>
    /\ last.ret = <<0, 0, 0, 1, \h80, 0, \h12, \h67>>

\* C13 as stated: the word of a component has its top bit set exactly when
\* the component ends in an apostrophe.
C13_AsStated ==
    Packed =>
        \A j \in 1..ComponentCount(last.args.path) :
            TopBitSet(PackedWord(last.ret, j))
                <=> ComponentHardened(last.args.path, j)

\* C13: for every path pack_path accepts, the word of a component has its
\* top bit set exactly when the component ends in an apostrophe or the
\* integer written in it is 2^31 or more.
C13_HardenedBit ==
    Packed =>
        \A j \in 1..ComponentCount(last.args.path) :
            TopBitSet(PackedWord(last.ret, j))
                <=> \/ ComponentHardened(last.args.path, j)
                    \/ ComponentInt(last.args.path, j).hi >= \h8000

\* 44'/0'/0'/0/7: the first three words have the top bit, the last two
\* do not.
C13_Witness ==
    /\ Packed
    /\ ComponentCount(last.args.path) = 5
    /\ \A j \in 1..3 : ComponentHardened(last.args.path, j)
                         /\ TopBitSet(PackedWord(last.ret, j))
    /\ \A j \in 4..5 : ~ComponentHardened(last.args.path, j)
                         /\ ~TopBitSet(PackedWord(last.ret, j))

\* C11 as stated: while no unlock_user call has returned normally, every
\* call of get_public_key, sign or get_header raises
\* PINModeLockedException(False), whatever else was called before.
C11_AsStated ==
    /\ history.on
    /\ last.op \in UserGated
    /\ ~history.user_verified
    =>
        /\ last.exc = "PINModeLockedException"
        /\ last.admin = FALSE
        /\ last.frames = <<>>

\* C11: while neither an unlock_user call nor a set_user_pin call has
\* returned normally, every call of get_public_key, sign or get_header
\* raises PINModeLockedException(False) and transmits nothing, whether or
\* not a key is loaded and whatever else was called before.
C11_LockedUntilPin ==
    /\ history.on
    /\ last.op \in UserGated
    /\ ~history.user_verified
    /\ ~history.user_changed
    =>
        /\ last.exc = "PINModeLockedException"
        /\ last.admin = FALSE
        /\ last.frames = <<>>

\* sign with a key loaded, after the user PIN was refused and admin mode was
\* unlocked, but before any user PIN call has succeeded.
C11_Witness ==
    /\ history.on
    /\ last.op = "sign"
    /\ last.pre.key_loaded
    /\ last.pre.admin_unlocked
    /\ history.user_pin = "failed"
    /\ ~history.user_verified
    /\ ~history.user_changed
    /\ last.exc = "PINModeLockedException"

\* The instruction byte of the frame the last call transmitted.
SentIns == last.frames[1][2]

\* C20: a frame with instruction 0x01, 0x02 or 0x03 is transmitted only if
\* the most recent answer of 0x9000 or 0x63C0..0x63CF to a frame of
\* unlock_user or set_user_pin was 0x9000 and a key is loaded; a frame with
\* instruction 0x11..0x15 only if the most recent such answer to a frame of
\* unlock_admin or set_admin_pin was 0x9000; so no such frame is
\* transmitted while no PIN call has been answered 0x9000.
C20_GatedFramesFollowPin ==
    history.on /\ Transmitted =>
        /\ SentIns \in {\h01, \h02, \h03} =>
              history.user_pin = "ok" /\ last.pre.key_loaded
        /\ SentIns \in \h11..\h15 => history.admin_pin = "ok"

\* A sign frame goes out after the user PIN was changed (never verified),
\* while the admin PIN was last refused.
C20_Witness ==
    /\ history.on
    /\ last.op = "sign"
    /\ Transmitted
    /\ SentIns = \h02
    /\ history.user_pin = "ok"
    /\ ~history.user_verified
    /\ history.admin_pin = "failed"

\* The length of the payload the call recorded in c hands to _cmd: the PIN,
\* the key, the two PINs each behind its length byte, the packed path (four
\* bytes per component) or the packed path and the digest.
PayloadLen(c) ==
    CASE c.op \in {"unlock_user", "unlock_admin", "reset_user_pin"} ->
            Len(c.args.pin)
      [] c.op \in ChangeOps -> 2 + Len(c.args.pin) + Len(c.args.new_pin)
      [] c.op = "import_extended_key_pair" -> Len(c.args.key)
      [] c.op = "get_public_key" -> 4 * ComponentCount(c.args.path)
      [] c.op = "sign" ->
            4 * ComponentCount(c.args.path) + Len(c.args.digest)
      [] c.op \in {"set_user_retry_count", "set_admin_retry_count"} -> 1
      [] OTHER -> 0

\* C18 as stated: a call that passes its guards and argument checks with a
\* payload of more than 255 bytes raises ValueError and transmits nothing;
\* and every frame transmitted is CLA 0, INS, P1, P2, one length byte, and
\* as many payload bytes as the length byte says.
C18_AsStated ==
    /\ ChecksPass(last) /\ PayloadLen(last) > 255 =>
          last.exc = "ValueError" /\ last.frames = <<>>
    /\ \A i \in 1..Len(last.frames) :
          /\ Len(last.frames[i]) >= 5
          /\ last.frames[i][1] = 0
          /\ last.frames[i][5] = Len(last.frames[i]) - 5

\* The frame last handed to the reader is a frame of get_public_key, sign
\* or get_header, and user_unlocked was false when it was handed over.
GatedFrameSentLocked ==
    \E i \in 1..Len(threads.sent) :
        /\ threads.sent[i].frame[2] \in {\h01, \h02, \h03}
        /\ ~threads.sent[i].user_unlocked

\* C19: when the callers of one object serialize their calls, no frame of a
\* user-gated method is handed to the reader while user_unlocked is false.
\* Without serialization that state is reachable (C19_Witness): the check
\* of the guard and the transmit are separate steps.
C19_SerializedIsSafe == threads.serialized => ~GatedFrameSentLocked

\* Callers that do not serialize: one caller's sign frame is handed to the
\* reader while user_unlocked is false, another caller's unlock_user having
\* raised IncorrectPINException after the check of the guard.
C19_Witness ==
    /\ ~threads.serialized
    /\ GatedFrameSentLocked
    /\ threads.sent[1].frame[2] = \h02
    /\ threads.pc[threads.sent[1].caller] = "sign_receive"
    /\ \E d \in Callers \ {threads.sent[1].caller} :
          threads.result[d] = "IncorrectPINException"
    /\ ~user_unlocked

====
